---- MODULE Spec2Model ----
(***************************************************************************)
(* Resume / job keyword-overlap matching platform (src/app.py).            *)
(*                                                                         *)
(* A text is a sequence of characters, a character is a one-character      *)
(* string.  A Python dict / Counter is a sequence of records               *)
(* [tok |-> token, n |-> count] in insertion order (the order Python       *)
(* keeps and most_common() relies on).  A score overlap / total_job is     *)
(* the pair [num |-> overlap, den |-> total_job]; for the small integers   *)
(* reached here two quotients are the same float exactly when the          *)
(* fractions are equal, and order as the fractions do.                     *)
(***************************************************************************)
EXTENDS Integers, Sequences, FiniteSets, TLC

VARIABLES STOPWORDS, resumes, employers, jobs, response, args, ret

vars == <<STOPWORDS, resumes, employers, jobs, response, args, ret>>

(***************************************************************************)
(* Bounds of the model.                                                    *)
(***************************************************************************)
MaxChunks == 4
MaxDocChunks == 2
MaxParagraphs == 2
MaxResumeChunks == 3
MaxJobChunks == 2
MaxTopN == 3
MaxJobs == 11
MaxResumes == 1

\* scored_sorted[:10]
TopLimit == 10

(***************************************************************************)
(* Characters.                                                             *)
(***************************************************************************)
Upper == << "A", "B", "C", "D", "E", "F", "G", "H", "I", "J", "K", "L", "M",
            "N", "O", "P", "Q", "R", "S", "T", "U", "V", "W", "X", "Y", "Z" >>

Lower == << "a", "b", "c", "d", "e", "f", "g", "h", "i", "j", "k", "l", "m",
            "n", "o", "p", "q", "r", "s", "t", "u", "v", "w", "x", "y", "z" >>

Letters == { Lower[i] : i \in 1..Len(Lower) }

Digits == { "0", "1", "2", "3", "4", "5", "6", "7", "8", "9" }

Whitespace == { " ", "\t", "\n" }

\* str.lower() on one character.
ToLower == [c \in { Upper[i] : i \in 1..Len(Upper) } |->
               Lower[CHOOSE i \in 1..Len(Upper) : Upper[i] = c]]

lower_char(c) == IF c \in DOMAIN ToLower THEN ToLower[c] ELSE c

\* Mutant: the text is not lowercased.
lower_Identity(text) == text

\* text.lower()
lower(text) == [i \in 1..Len(text) |-> lower_char(text[i])]

\* The characters the pattern [^a-z0-9\s\-+#] does not match.
KeptChars == Letters \cup Digits \cup Whitespace \cup { "-", "+", "#" }

KeptChar(c) == c \in KeptChars

\* re.sub(r"[^a-z0-9\s\-+#]", " ", text)
re_sub(text) == [i \in 1..Len(text) |-> IF KeptChar(text[i]) THEN text[i] ELSE " "]

\* str.split() with no argument: the maximal runs of non-whitespace.
RECURSIVE split_from(_, _, _)
split_from(text, i, cur) ==
    IF i > Len(text)
    THEN IF cur = <<>> THEN <<>> ELSE <<cur>>
    ELSE IF text[i] \in Whitespace
         THEN IF cur = <<>>
              THEN split_from(text, i + 1, <<>>)
              ELSE <<cur>> \o split_from(text, i + 1, <<>>)
         ELSE split_from(text, i + 1, Append(cur, text[i]))

split(text) == split_from(text, 1, <<>>)

\* str.strip(): drop leading and trailing whitespace.
RECURSIVE lstrip(_)
lstrip(text) ==
    IF text # <<>> /\ Head(text) \in Whitespace THEN lstrip(Tail(text)) ELSE text

RECURSIVE rstrip(_)
rstrip(text) ==
    IF text # <<>> /\ text[Len(text)] \in Whitespace
    THEN rstrip(SubSeq(text, 1, Len(text) - 1))
    ELSE text

strip(text) == rstrip(lstrip(text))

(***************************************************************************)
(* dict / Counter helpers.                                                 *)
(***************************************************************************)
Keys(d) == { d[i].tok : i \in 1..Len(d) }

\* d.get(tok, 0)
Get(d, tok) ==
    IF tok \in Keys(d)
    THEN d[CHOOSE i \in 1..Len(d) : d[i].tok = tok].n
    ELSE 0

\* sum(d.values())
RECURSIVE SumValues(_)
SumValues(d) == IF d = <<>> THEN 0 ELSE Head(d).n + SumValues(Tail(d))

\* Counter(tokens): one entry per distinct token, in first-encounter order.
RECURSIVE CounterFrom(_, _)
CounterFrom(tokens, cnt) ==
    IF tokens = <<>>
    THEN cnt
    ELSE LET t == Head(tokens)
         IN  IF t \in Keys(cnt)
             THEN CounterFrom(Tail(tokens),
                      [i \in 1..Len(cnt) |->
                          IF cnt[i].tok = t
                          THEN [tok |-> t, n |-> cnt[i].n + 1]
                          ELSE cnt[i]])
             ELSE CounterFrom(Tail(tokens), Append(cnt, [tok |-> t, n |-> 1]))

Counter(tokens) == CounterFrom(tokens, <<>>)

\* Insert e into a list sorted by descending count, after every entry whose
\* count is >= e's (a stable sort keeps earlier entries first among equals).
RECURSIVE InsertByCount(_, _)
InsertByCount(sorted, e) ==
    IF sorted = <<>>
    THEN <<e>>
    ELSE IF Head(sorted).n >= e.n
         THEN <<Head(sorted)>> \o InsertByCount(Tail(sorted), e)
         ELSE <<e>> \o sorted

RECURSIVE SortByCount(_, _)
SortByCount(d, acc) ==
    IF d = <<>> THEN acc ELSE SortByCount(Tail(d), InsertByCount(acc, Head(d)))

\* Counter.most_common(n): sorted(items, key=count, reverse=True)[:n], and
\* the empty list for n < 0 (heapq.nlargest).
most_common(cnt, n) ==
    LET s == SortByCount(cnt, <<>>)
    IN  IF n <= 0 THEN <<>> ELSE SubSeq(s, 1, IF n < Len(s) THEN n ELSE Len(s))

(***************************************************************************)
(* tokenize_and_weight(text, top_n=None).  top_n is <<>> for None and      *)
(* <<n>> for the integer n.  stop is the module-level STOPWORDS.           *)
(***************************************************************************)
\* Mutant: one-character tokens are kept.
Tokens_KeepShort(text, stop) ==
    SelectSeq(split(re_sub(lower(text))), LAMBDA t : t # <<>> /\ t \notin stop)

\* Mutant: stopwords are kept.
Tokens_KeepStopwords(text, stop) ==
    SelectSeq(split(re_sub(lower(text))), LAMBDA t : t # <<>> /\ Len(t) > 1)

\* tokens = [t for t in text.split() if t and t not in STOPWORDS and len(t) > 1]
Tokens(text, stop) ==
    SelectSeq(split(re_sub(lower(text))),
              LAMBDA t : t # <<>> /\ t \notin stop /\ Len(t) > 1)

\* `if top_n:` -- None and 0 are both falsy.
Truthy(top_n) == top_n # <<>> /\ top_n[1] # 0

tokenize_and_weight(text, top_n, stop) ==
    LET cnt == Counter(Tokens(text, stop))
    IN  IF Truthy(top_n) THEN most_common(cnt, top_n[1]) ELSE cnt

(***************************************************************************)
(* score_resume_against_job(resume_text, job_desc).                        *)
(***************************************************************************)
Min(a, b) == IF a <= b THEN a ELSE b

\* Mutant: the contribution is not clamped by the job count.
Contribution_Unclamped(rcount, jcount) == rcount

\* contribution = min(rcount, jcount)
Contribution(rcount, jcount) == Min(rcount, jcount)

\* Mutant: the test `if rcount > 0` is dropped.
RECURSIVE ScoreLoop_NoGuard(_, _, _, _, _)
ScoreLoop_NoGuard(j_tokens, r_tokens, i, overlap, matched) ==
    IF i > Len(j_tokens)
    THEN [overlap |-> overlap, matched |-> matched]
    ELSE LET tok    == j_tokens[i].tok
             jcount == j_tokens[i].n
             rcount == Get(r_tokens, tok)
         IN  ScoreLoop_NoGuard(j_tokens, r_tokens, i + 1,
                               overlap + Contribution(rcount, jcount),
                               Append(matched,
                                      [tok |-> tok, n |-> Contribution(rcount, jcount)]))

\* The loop `for tok, jcount in j_tokens.items()` from its i-th item on.
RECURSIVE ScoreLoop(_, _, _, _, _)
ScoreLoop(j_tokens, r_tokens, i, overlap, matched) ==
    IF i > Len(j_tokens)
    THEN [overlap |-> overlap, matched |-> matched]
    ELSE LET tok    == j_tokens[i].tok
             jcount == j_tokens[i].n
             rcount == Get(r_tokens, tok)
         IN  IF rcount > 0
             THEN ScoreLoop(j_tokens, r_tokens, i + 1,
                            overlap + Contribution(rcount, jcount),
                            Append(matched,
                                   [tok |-> tok, n |-> Contribution(rcount, jcount)]))
             ELSE ScoreLoop(j_tokens, r_tokens, i + 1, overlap, matched)

\* Mutant: the score is normalized by the number of distinct job tokens.
TotalJob_Distinct(j_tokens) == IF Len(j_tokens) = 0 THEN 1 ELSE Len(j_tokens)

\* Mutant: the score is not normalized.
TotalJob_One(j_tokens) == 1

\* sum(j_tokens.values()) or 1
TotalJob(j_tokens) == IF SumValues(j_tokens) = 0 THEN 1 ELSE SumValues(j_tokens)

score_resume_against_job(resume_text, job_desc, stop) ==
    LET r_tokens == tokenize_and_weight(resume_text, <<>>, stop)
        j_tokens == tokenize_and_weight(job_desc, <<>>, stop)
    IN  IF j_tokens = <<>>
        THEN [score |-> [num |-> 0, den |-> 1], matched |-> <<>>]
        ELSE LET l == ScoreLoop(j_tokens, r_tokens, 1, 0, <<>>)
             IN  [score   |-> [num |-> l.overlap, den |-> TotalJob(j_tokens)],
                  matched |-> l.matched]

\* Comparison of two scores as the floats compare.
ScoreGT(a, b) == a.num * b.den > b.num * a.den
ScoreEQ(a, b) == a.num * b.den = b.num * a.den

(***************************************************************************)
(* Documents.  A stored file is its bytes (raw: characters, and InvalidByte *)
(* for a byte that is no UTF-8) together with what the two structural      *)
(* parsers, which are libraries outside this repository, make of those     *)
(* bytes: pdfminer's extract_text either raises or returns a text,         *)
(* docx.Document either raises or yields the paragraphs.                   *)
(***************************************************************************)
InvalidByte == "0xFF"

Raises == [ok |-> FALSE]

PdfDoc(text) ==
    [raw  |-> <<"%", "P", "D", "F", InvalidByte>>,
     pdf  |-> [ok |-> TRUE, text |-> text],
     docx |-> Raises]

DocxDoc(paragraphs) ==
    [raw  |-> <<"P", "K", InvalidByte, InvalidByte>>,
     pdf  |-> Raises,
     docx |-> [ok |-> TRUE, paragraphs |-> paragraphs]]

RawDoc(bytes) == [raw |-> bytes, pdf |-> Raises, docx |-> Raises]

\* A call's outcome: the value returned, or the exception that left it.
Return(v) == [exc |-> "none", val |-> v]
Raise(e) == [exc |-> e]

\* "\n".join(full_text)
RECURSIVE JoinLines(_)
JoinLines(ps) ==
    IF ps = <<>> THEN <<>>
    ELSE IF Len(ps) = 1 THEN ps[1]
    ELSE ps[1] \o <<"\n">> \o JoinLines(Tail(ps))

extract_text_from_docx(path) ==
    IF path.docx.ok THEN Return(JoinLines(path.docx.paragraphs))
    ELSE Raise("PackageNotFoundError")

extract_text_from_pdf(path) ==
    IF path.pdf.ok THEN Return(path.pdf.text) ELSE Return(<<>>)

\* open(path, "r", encoding="utf-8", errors="ignore").read()
extract_text_from_txt(path) ==
    Return(SelectSeq(path.raw, LAMBDA b : b # InvalidByte))

\* filename.rsplit(".", 1): <<filename>> when it holds no dot.
HasDot(filename) == \E i \in 1..Len(filename) : filename[i] = "."

LastDot(filename) ==
    CHOOSE i \in 1..Len(filename) :
        filename[i] = "." /\ \A j \in (i + 1)..Len(filename) : filename[j] # "."

rsplit_dot(filename) ==
    IF HasDot(filename)
    THEN << SubSeq(filename, 1, LastDot(filename) - 1),
            SubSeq(filename, LastDot(filename) + 1, Len(filename)) >>
    ELSE << filename >>

pdf == <<"p", "d", "f">>
docx == <<"d", "o", "c", "x">>
doc == <<"d", "o", "c">>
txt == <<"t", "x", "t">>

ALLOWED_EXTENSIONS == { pdf, docx, doc, txt }

allowed_file(filename) ==
    HasDot(filename) /\ lower(rsplit_dot(filename)[2]) \in ALLOWED_EXTENSIONS

extract_text(path, filename) ==
    IF Len(rsplit_dot(filename)) < 2
    THEN Raise("IndexError")
    ELSE LET ext == lower(rsplit_dot(filename)[2])
         IN  IF ext = pdf THEN extract_text_from_pdf(path)
             ELSE IF ext \in { docx, doc }
                  THEN IF ext = doc
                       THEN extract_text_from_txt(path)
                       ELSE extract_text_from_docx(path)
             ELSE IF ext = txt THEN extract_text_from_txt(path)
             ELSE Return(<<>>)

(***************************************************************************)
(* The stopword set: NLTK's English list when it is installed (a few of    *)
(* its members stand for it), the empty set otherwise.                     *)
(***************************************************************************)
NltkEnglish == { <<"o", "f">>, <<"t", "h", "e">>, <<"a", "n", "d">>, <<"a">> }

StopwordChoices == { NltkEnglish, {} }

(***************************************************************************)
(* Input texts: concatenations of a few chunks, and the two texts of the   *)
(* end-to-end example.                                                     *)
(***************************************************************************)
RECURSIVE Concat(_)
Concat(ss) == IF ss = <<>> THEN <<>> ELSE Head(ss) \o Concat(Tail(ss))

TextsOf(chunks, n) ==
    UNION { { Concat(cs) : cs \in [1..k -> chunks] } : k \in 0..n }

TokChunks == { <<"P", "y", " ">>, <<"g", "o", "\n">>, <<"o", "f", " ">>,
               <<"c", "+">>, <<"x", ".">>, <<"-", "y", "\t">> }

ScoreChunks == { <<"p", "y", " ">>, <<"G", "O", ".">>, <<"o", "f", " ">>,
                 <<"c", " ">> }

ExampleResume ==
    <<"E", "x", "p", "e", "r", "i", "e", "n", "c", "e", "d", " ", "P", "y",
    "t", "h", "o", "n", " ", "e", "n", "g", "i", "n", "e", "e", "r", ",", 
    " ", "5", " ", "y", "e", "a", "r", "s", " ", "P", "y", "t", "h", "o", "n",
    ".">>

ExampleJob ==
    <<"P", "y", "t", "h", "o", "n", " ", "d", "e", "v", "e", "l", "o", "p",
    "e", "r", " ", "n", "e", "e", "d", "e", "d", ".", " ", "P", "y", "t",
    "h", "o", "n", " ", "e", "x", "p", "e", "r", "i", "e", "n", "c", "e", 
    " ", "r", "e", "q", "u", "i", "r", "e", "d", ".">>

TopNs == { <<>> } \cup { <<n>> : n \in 0..MaxTopN }

NoCall == [fn |-> "none"]

NoResponse == [status |-> 0]

(***************************************************************************)
(* The tokenizer applied to one text.                                      *)
(***************************************************************************)
InitTokenize ==
    /\ STOPWORDS \in StopwordChoices
    /\ resumes = <<>> /\ employers = <<>> /\ jobs = <<>>
    /\ response = NoResponse
    /\ \E text \in TextsOf(TokChunks, MaxChunks), top_n \in TopNs :
           args = [fn |-> "tokenize_and_weight", text |-> text, top_n |-> top_n]
    /\ ret = NoCall

CallTokenize ==
    /\ args.fn = "tokenize_and_weight"
    /\ ret = NoCall
    /\ ret' = [fn |-> "tokenize_and_weight",
               val |-> tokenize_and_weight(args.text, args.top_n, STOPWORDS)]
    /\ UNCHANGED <<STOPWORDS, resumes, employers, jobs, response, args>>

SpecTokenize == InitTokenize /\ [][CallTokenize]_vars

(***************************************************************************)
(* The scorer applied to one (resume, job) pair.                           *)
(***************************************************************************)
ScorePairs ==
    (TextsOf(ScoreChunks, MaxResumeChunks) \X TextsOf(ScoreChunks, MaxJobChunks))
        \cup { <<ExampleResume, ExampleJob>> }

InitScore ==
    /\ STOPWORDS \in StopwordChoices
    /\ resumes = <<>> /\ employers = <<>> /\ jobs = <<>>
    /\ response = NoResponse
    /\ \E p \in ScorePairs :
           args = [fn |-> "score_resume_against_job",
                   resume_text |-> p[1], job_desc |-> p[2]]
    /\ ret = NoCall

CallScore ==
    /\ args.fn = "score_resume_against_job"
    /\ ret = NoCall
    /\ ret' = [fn |-> "score_resume_against_job",
               val |-> score_resume_against_job(args.resume_text, args.job_desc,
                                                STOPWORDS)]
    /\ UNCHANGED <<STOPWORDS, resumes, employers, jobs, response, args>>

SpecScore == InitScore /\ [][CallScore]_vars

(***************************************************************************)
(* The extractor applied to one stored file under one declared name.       *)
(***************************************************************************)
ByteChunks == { <<"P", "y", " ">>, <<InvalidByte>>, <<"\n">> }

ParagraphTexts == { <<>>, <<"g", "o">> }

Documents ==
    { RawDoc(b) : b \in TextsOf(ByteChunks, MaxDocChunks) }
        \cup { PdfDoc(t) : t \in { <<>>, <<"P", "y">> } }
        \cup { DocxDoc(ps) :
                   ps \in UNION { [1..k -> ParagraphTexts] : k \in 0..MaxParagraphs } }

Filenames == { <<"a", ".", "p", "d", "f">>, <<"a", ".", "D", "o", "c", "x">>,
               <<"a", ".", "b", ".", "d", "o", "c">>, <<"a", ".", "t", "x", "t">>,
               <<"a", ".", "e", "x", "e">>, <<"a">> }

InitExtract ==
    /\ STOPWORDS \in StopwordChoices
    /\ resumes = <<>> /\ employers = <<>> /\ jobs = <<>>
    /\ response = NoResponse
    /\ \E path \in Documents, filename \in Filenames :
           args = [fn |-> "extract_text", path |-> path, filename |-> filename]
    /\ ret = NoCall

CallExtract ==
    /\ args.fn = "extract_text"
    /\ ret = NoCall
    /\ ret' = [fn |-> "extract_text", out |-> extract_text(args.path, args.filename)]
    /\ UNCHANGED <<STOPWORDS, resumes, employers, jobs, response, args>>

SpecExtract == InitExtract /\ [][CallExtract]_vars

(***************************************************************************)
(* The web application: the tables resumes, employers and jobs (a table is *)
(* the sequence of its rows in insertion order, a row's id its position,   *)
(* and query.all() returns the rows in that order) and the response to the *)
(* last request.  The upload folder and the listing pages (index, admin)   *)
(* and the flashed messages of the session do not feed matching and are    *)
(* left out.  The process runs with the NLTK stopword list installed.      *)
(***************************************************************************)
\* werkzeug's secure_filename on an ASCII name: path separators become
\* spaces, whitespace runs become "_", characters outside [A-Za-z0-9_.-] go,
\* and leading and trailing "." and "_" are stripped.
RECURSIVE JoinUnderscore(_)
JoinUnderscore(ws) ==
    IF ws = <<>> THEN <<>>
    ELSE IF Len(ws) = 1 THEN ws[1]
    ELSE ws[1] \o <<"_">> \o JoinUnderscore(Tail(ws))

RECURSIVE StripDots(_)
StripDots(name) ==
    IF name # <<>> /\ Head(name) \in { ".", "_" } THEN StripDots(Tail(name))
    ELSE IF name # <<>> /\ name[Len(name)] \in { ".", "_" }
         THEN StripDots(SubSeq(name, 1, Len(name) - 1))
         ELSE name

secure_filename(filename) ==
    LET spaced == [i \in 1..Len(filename) |->
                      IF filename[i] = "/" THEN " " ELSE filename[i]]
        joined == JoinUnderscore(split(spaced))
        ascii  == SelectSeq(joined,
                      LAMBDA c : c \in Letters \cup Digits \cup { "_", ".", "-" }
                                 \/ lower_char(c) # c)
    IN  StripDots(ascii)

NoFile == [present |-> FALSE]

\* redirect(...): the flashed message goes to the session, not the response.
Redirect(to) == [status |-> 302, location |-> to]

upload_resume(candidate_name, file) ==
    IF ~file.present \/ file.filename = <<>>
    THEN /\ response' = Redirect("upload_resume")
         /\ UNCHANGED resumes
    ELSE IF ~allowed_file(file.filename)
    THEN /\ response' = Redirect("upload_resume")
         /\ UNCHANGED resumes
    ELSE LET original_name == secure_filename(file.filename)
             out == extract_text(file.content, original_name)
             id  == Len(resumes) + 1
         IN  IF out.exc # "none"
             THEN /\ response' = [status |-> 500, exc |-> out.exc]
                  /\ UNCHANGED resumes
             ELSE /\ resumes' = Append(resumes,
                         [id |-> id,
                          filename |-> [uuid |-> id, name |-> original_name],
                          original_name |-> original_name,
                          text |-> out.val,
                          candidate_name |-> strip(candidate_name)])
                  /\ response' = [status |-> 302, location |-> "match_resume",
                                  resume_id |-> id]

post_job(company, email, title, description) ==
    IF strip(company) = <<>> \/ strip(title) = <<>> \/ strip(description) = <<>>
    THEN /\ response' = Redirect("post_job")
         /\ UNCHANGED <<employers, jobs>>
    ELSE /\ employers' = Append(employers,
                [id |-> Len(employers) + 1, company |-> strip(company),
                 contact_email |-> strip(email)])
         /\ jobs' = Append(jobs,
                [id |-> Len(jobs) + 1, employer_id |-> Len(employers) + 1,
                 title |-> strip(title), description |-> strip(description)])
         /\ response' = Redirect("index")

\* The list `scored`: one entry per job of the query, in query order.
Scored(resume, all_jobs, stop) ==
    [i \in 1..Len(all_jobs) |->
        LET r == score_resume_against_job(
                     resume.text,
                     all_jobs[i].description \o <<" ">> \o all_jobs[i].title, stop)
        IN  [job |-> all_jobs[i].id, score |-> r.score, matched |-> r.matched]]

\* sorted(scored, key=lambda x: x["score"], reverse=True): a stable sort, so
\* an entry goes after every entry whose score is >= its own.
\* Mutant: an unstable sort, an entry goes before the entries of equal score.
RECURSIVE InsertByScore_Unstable(_, _)
InsertByScore_Unstable(sorted, e) ==
    IF sorted = <<>>
    THEN <<e>>
    ELSE IF ~ScoreGT(Head(sorted).score, e.score)
         THEN <<e>> \o sorted
         ELSE <<Head(sorted)>> \o InsertByScore_Unstable(Tail(sorted), e)

RECURSIVE InsertByScore(_, _)
InsertByScore(sorted, e) ==
    IF sorted = <<>>
    THEN <<e>>
    ELSE IF ScoreGT(e.score, Head(sorted).score)
         THEN <<e>> \o sorted
         ELSE <<Head(sorted)>> \o InsertByScore(Tail(sorted), e)

RECURSIVE SortByScore(_, _)
SortByScore(scored, acc) ==
    IF scored = <<>> THEN acc
    ELSE SortByScore(Tail(scored), InsertByScore(acc, Head(scored)))

Top(scored_sorted) ==
    SubSeq(scored_sorted, 1, Min(TopLimit, Len(scored_sorted)))

match_resume(resume_id) ==
    IF resume_id \notin 1..Len(resumes)
    THEN response' = [status |-> 404]
    ELSE response' =
             [status |-> 200, template |-> "matches.html", resume |-> resume_id,
              matches |-> Top(SortByScore(Scored(resumes[resume_id], jobs, STOPWORDS),
                                          <<>>))]

Companies == { <<"a", "c", " ">> }
Emails == { <<>> }
Titles == { <<" ">>, <<"q", "a">> }
Descriptions == { <<"p", "y">>, <<" ", "g", "o", " ", "G", "o">> }

CandidateNames == { <<" ", "a", "l">> }
UploadNames == { <<>>, <<"c", "v", ".", "t", "x", "t">>,
                 <<"c", "v", ".", "D", "O", "C", "X">>,
                 <<"c", "v", ".", "e", "x", "e">> }
UploadDocs == { RawDoc(<<"P", "y", InvalidByte, " ", "g", "o">>) }
Uploads ==
    { NoFile } \cup
    { [present |-> TRUE, filename |-> f, content |-> c] :
          f \in UploadNames, c \in UploadDocs }

Init ==
    /\ STOPWORDS = NltkEnglish
    /\ resumes = <<>>
    /\ employers = <<>>
    /\ jobs = <<>>
    /\ response = NoResponse
    /\ args = NoCall
    /\ ret = NoCall

UploadResume ==
    /\ Len(resumes) < MaxResumes
    /\ \E candidate_name \in CandidateNames, file \in Uploads :
           upload_resume(candidate_name, file)
    /\ UNCHANGED <<STOPWORDS, employers, jobs, args, ret>>

PostJob ==
    /\ Len(jobs) < MaxJobs
    /\ \E company \in Companies, email \in Emails, title \in Titles,
          description \in Descriptions :
           post_job(company, email, title, description)
    /\ UNCHANGED <<STOPWORDS, resumes, args, ret>>

MatchResume ==
    /\ \E resume_id \in 1..(Len(resumes) + 1) : match_resume(resume_id)
    /\ UNCHANGED <<STOPWORDS, resumes, employers, jobs, args, ret>>

Next == UploadResume \/ PostJob \/ MatchResume

Spec == Init /\ [][Next]_vars

(***************************************************************************)
(* Vocabulary of the properties: the words of a normalized text, read off  *)
(* the text position by position.                                          *)
(***************************************************************************)
Normalized(text) == re_sub(lower(text))

WordStarts(N) ==
    { i \in 1..Len(N) : N[i] \notin Whitespace /\ (i = 1 \/ N[i - 1] \in Whitespace) }

WordEnd(N, i) ==
    CHOOSE j \in i..Len(N) :
        /\ \A k \in i..j : N[k] \notin Whitespace
        /\ j = Len(N) \/ N[j + 1] \in Whitespace

WordAt(N, i) == SubSeq(N, i, WordEnd(N, i))

Occurrences(N, t) == Cardinality({ i \in WordStarts(N) : WordAt(N, i) = t })

Surviving(text, stop) ==
    { w \in { WordAt(Normalized(text), i) : i \in WordStarts(Normalized(text)) } :
        Len(w) >= 2 /\ w \notin stop }

\* A dict as the mapping it is, whatever its insertion order.
AsMap(d) == [k \in Keys(d) |-> Get(d, k)]

IndexOf(d, k) == CHOOSE i \in 1..Len(d) : d[i].tok = k

TokenizeDone == ret.fn = "tokenize_and_weight"
ScoreDone == ret.fn = "score_resume_against_job"

RProfile == tokenize_and_weight(args.resume_text, <<>>, STOPWORDS)
JProfile == tokenize_and_weight(args.job_desc, <<>>, STOPWORDS)

python == <<"p", "y", "t", "h", "o", "n">>
developer == <<"d", "e", "v", "e", "l", "o", "p", "e", "r">>
experience == <<"e", "x", "p", "e", "r", "i", "e", "n", "c", "e">>
experienced == <<"e", "x", "p", "e", "r", "i", "e", "n", "c", "e", "d">>
engineer == <<"e", "n", "g", "i", "n", "e", "e", "r">>
years == <<"y", "e", "a", "r", "s">>
needed == <<"n", "e", "e", "d", "e", "d">>
required == <<"r", "e", "q", "u", "i", "r", "e", "d">>

(***************************************************************************)
(* C7: every key of the profile tokenize_and_weight returns is lowercase,  *)
(* at least two characters long, made only of a-z, 0-9, hyphen, plus and   *)
(* hash, and no stopword; every count is >= 1 and is the number of         *)
(* occurrences of the token in the normalized text.                        *)
(***************************************************************************)
C7_ProfileKeysAndCounts ==
    TokenizeDone =>
        \A i \in 1..Len(ret.val) :
            LET k == ret.val[i].tok
                n == ret.val[i].n
            IN  /\ Len(k) >= 2
                /\ \A c \in 1..Len(k) :
                       /\ k[c] \in Letters \cup Digits \cup { "-", "+", "#" }
                       /\ lower_char(k[c]) = k[c]
                /\ k \notin STOPWORDS
                /\ n >= 1
                /\ n = Occurrences(Normalized(args.text), k)

\* A profile with a repeated token, from a text with an upper-case letter, a
\* stopword and a one-character word, all of which the tokenizer had to handle.
C7_Witness ==
    /\ TokenizeDone
    /\ \E i \in 1..Len(ret.val) : ret.val[i].n >= 2
    /\ \E c \in 1..Len(args.text) : lower_char(args.text[c]) # args.text[c]
    /\ \E w \in STOPWORDS : Occurrences(Normalized(args.text), w) > 0
    /\ Occurrences(Normalized(args.text), <<"x">>) > 0

(***************************************************************************)
(* C4: when top_n is supplied (any integer >= 0, 0 included) the result    *)
(* holds exactly min(top_n, distinct surviving tokens) entries, they are   *)
(* the highest-count tokens with their full counts, ties go to the token   *)
(* first met in the text; without top_n the full profile is returned.      *)
(***************************************************************************)
TopNHolds(full, val, n) ==
    /\ Len(val) = Min(n, Cardinality(Surviving(args.text, STOPWORDS)))
    /\ \A i \in 1..Len(val) : val[i].n = Get(full, val[i].tok)
    /\ \A i \in 1..Len(val) : \A k \in Keys(full) \ Keys(val) :
           \/ val[i].n > Get(full, k)
           \/ /\ val[i].n = Get(full, k)
              /\ IndexOf(full, val[i].tok) < IndexOf(full, k)

C4_TopNTruncates ==
    TokenizeDone =>
        LET full == Counter(Tokens(args.text, STOPWORDS))
        IN  IF args.top_n = <<>>
            THEN ret.val = full
            ELSE args.top_n[1] >= 0 => TopNHolds(full, ret.val, args.top_n[1])

\* The same statement for top_n >= 1 only, where the code does truncate.
C4_TopNPositive ==
    TokenizeDone =>
        LET full == Counter(Tokens(args.text, STOPWORDS))
        IN  IF args.top_n = <<>>
            THEN ret.val = full
            ELSE args.top_n[1] >= 1 => TopNHolds(full, ret.val, args.top_n[1])

C4_Witness ==
    /\ TokenizeDone
    /\ args.top_n # <<>> /\ args.top_n[1] >= 1
    /\ Len(ret.val) = args.top_n[1]
    /\ Cardinality(Surviving(args.text, STOPWORDS)) > args.top_n[1]

(***************************************************************************)
(* C1: the score is >= 0, and it is exactly 1.0 when the job profile is    *)
(* non-empty and the resume holds every job token at least as often as     *)
(* the job does.                                                           *)
(***************************************************************************)
FullCoverage ==
    /\ JProfile # <<>>
    /\ \A k \in Keys(JProfile) : Get(RProfile, k) >= Get(JProfile, k)

C1_NonNegativeAndFullCoverage ==
    ScoreDone =>
        /\ ret.val.score.den > 0
        /\ ret.val.score.num >= 0
        /\ FullCoverage => ret.val.score.num = ret.val.score.den

\* Full coverage with a resume that repeats a job token more than the job.
C1_Witness ==
    /\ ScoreDone
    /\ FullCoverage
    /\ Len(JProfile) >= 2
    /\ \E k \in Keys(JProfile) : Get(RProfile, k) > Get(JProfile, k)

(***************************************************************************)
(* C2: the end-to-end example with the empty stopword set.  As claimed:    *)
(* job profile {python:2, developer:1, experience:1}, totalJob 4,          *)
(* overlap 2, score 0.5, matched {python:2}.                               *)
(***************************************************************************)
ExampleCall ==
    /\ ScoreDone
    /\ STOPWORDS = {}
    /\ args.resume_text = ExampleResume
    /\ args.job_desc = ExampleJob

C2_ExampleAsClaimed ==
    ExampleCall =>
        /\ AsMap(JProfile) = (python :> 2) @@ (developer :> 1) @@ (experience :> 1)
        /\ SumValues(JProfile) = 4
        /\ ret.val.score.num = 2
        /\ ScoreEQ(ret.val.score, [num |-> 1, den |-> 2])
        /\ AsMap(ret.val.matched) = (python :> 2)

(***************************************************************************)
(* C2 as amended: with the empty stopword set "needed" and "required" stay *)
(* in the job profile, which is {python:2, developer:1, needed:1,          *)
(* experience:1, required:1}; totalJob is 6, overlap 2, score 2/6 and      *)
(* matched {python:2}.                                                     *)
(***************************************************************************)
C2_ExampleAmended ==
    ExampleCall =>
        /\ AsMap(RProfile) =
               (experienced :> 1) @@ (python :> 2) @@ (engineer :> 1) @@ (years :> 1)
        /\ AsMap(JProfile) =
               (python :> 2) @@ (developer :> 1) @@ (needed :> 1)
                   @@ (experience :> 1) @@ (required :> 1)
        /\ SumValues(JProfile) = 6
        /\ ret.val.score = [num |-> 2, den |-> 6]
        /\ AsMap(ret.val.matched) = (python :> 2)

C2_Witness == ExampleCall

(***************************************************************************)
(* C5: with a non-empty job profile, matched has as keys exactly the       *)
(* tokens of both profiles, each mapped to min(resume count, job count);   *)
(* its values sum to overlap, and the score is overlap over the sum of     *)
(* the job-profile counts.                                                 *)
(***************************************************************************)
C5_MatchedAndRatio ==
    (ScoreDone /\ JProfile # <<>>) =>
        LET m == ret.val.matched
        IN  /\ Keys(m) = Keys(JProfile) \cap Keys(RProfile)
            /\ Len(m) = Cardinality(Keys(m))
            /\ \A k \in Keys(m) :
                   Get(m, k) = IF Get(RProfile, k) <= Get(JProfile, k)
                               THEN Get(RProfile, k)
                               ELSE Get(JProfile, k)
            /\ SumValues(m) = ret.val.score.num
            /\ ret.val.score.den = SumValues(JProfile)

\* A matched token the job count caps, a job token the resume lacks and a
\* resume token the job lacks.
C5_Witness ==
    /\ ScoreDone
    /\ \E k \in Keys(ret.val.matched) : Get(RProfile, k) > Get(JProfile, k)
    /\ Keys(JProfile) \ Keys(RProfile) # {}
    /\ Keys(RProfile) \ Keys(JProfile) # {}

(***************************************************************************)
(* C6: the score never exceeds 1: overlap <= totalJob, however often the   *)
(* resume repeats a job keyword.                                           *)
(***************************************************************************)
C6_ScoreAtMostOne ==
    ScoreDone =>
        /\ ret.val.score.num <= ret.val.score.den
        /\ \A k \in Keys(ret.val.matched) : Get(ret.val.matched, k) <= Get(JProfile, k)

C6_Witness ==
    /\ ScoreDone
    /\ \E k \in Keys(JProfile) : Get(RProfile, k) >= Get(JProfile, k) + 2

(***************************************************************************)
(* C8: when the job text is empty or leaves no token after filtering, the  *)
(* result is exactly (0.0, {}).                                            *)
(***************************************************************************)
C8_EmptyJobScoresZero ==
    (ScoreDone /\ Surviving(args.job_desc, STOPWORDS) = {}) =>
        /\ ret.val.score = [num |-> 0, den |-> 1]
        /\ ret.val.matched = <<>>

\* A job text of stopwords and one-character words only, scored against a
\* resume that holds the same words and a real token.
C8_Witness ==
    /\ ScoreDone
    /\ args.job_desc # <<>>
    /\ Surviving(args.job_desc, STOPWORDS) = {}
    /\ \E w \in STOPWORDS : /\ Occurrences(Normalized(args.job_desc), w) > 0
                            /\ Occurrences(Normalized(args.resume_text), w) > 0
    /\ RProfile # <<>>

(***************************************************************************)
(* C9: scoring is not symmetric.  The overlap is the same in both          *)
(* directions and each direction divides it by the token total of its      *)
(* second argument, so the two scores differ exactly when the overlap is   *)
(* positive and the two totals differ.                                     *)
(***************************************************************************)
Reverse == score_resume_against_job(args.job_desc, args.resume_text, STOPWORDS)

C9_AsymmetricNormalization ==
    ScoreDone =>
        /\ ret.val.score.num = Reverse.score.num
        /\ ret.val.score.num > 0 =>
               /\ ret.val.score.den = SumValues(JProfile)
               /\ Reverse.score.den = SumValues(RProfile)
        /\ ScoreEQ(ret.val.score, Reverse.score) <=>
               (ret.val.score.num = 0 \/ SumValues(RProfile) = SumValues(JProfile))

\* A resume three times as long as the job, with different scores each way.
C9_Witness ==
    /\ ScoreDone
    /\ Len(args.resume_text) >= 3 * Len(args.job_desc)
    /\ ~ScoreEQ(ret.val.score, Reverse.score)
    /\ ScoreGT(ret.val.score, Reverse.score)

(***************************************************************************)
(* C3: for every content and every format tag in {pdf, docx, doc, txt},    *)
(* extract_text propagates no exception: a parse failure is caught and     *)
(* the call returns a string, the empty one when parsing failed.           *)
(***************************************************************************)
ExtractDone == ret.fn = "extract_text"

DeclaredTag == lower(rsplit_dot(args.filename)[2])

C3_ExtractNeverRaises ==
    (ExtractDone /\ HasDot(args.filename) /\ DeclaredTag \in ALLOWED_EXTENSIONS) =>
        /\ ret.out.exc = "none"
        /\ (DeclaredTag = pdf /\ ~args.path.pdf.ok) => ret.out.val = <<>>
        /\ (DeclaredTag = docx /\ ~args.path.docx.ok) => ret.out.val = <<>>

\* The part of C3 the code keeps: pdf, doc and txt never raise, a malformed
\* PDF gives the empty string, and undecodable bytes are dropped.
C3_PdfDocTxtNeverRaise ==
    (ExtractDone /\ HasDot(args.filename) /\ DeclaredTag \in { pdf, doc, txt }) =>
        /\ ret.out.exc = "none"
        /\ (DeclaredTag = pdf /\ ~args.path.pdf.ok) => ret.out.val = <<>>
        /\ \A i \in 1..Len(ret.out.val) : ret.out.val[i] # InvalidByte

(***************************************************************************)
(* C10: match_resume scores every stored job exactly once and presents     *)
(* min(10, number of jobs) entries in non-increasing score order; no       *)
(* omitted job scores strictly higher than a presented one, and jobs of    *)
(* equal score keep their query order.                                     *)
(***************************************************************************)
MatchesShown == response.status = 200

\* What score_resume_against_job gives for the resume and each stored job.
JobScores(resume_id) ==
    [j \in 1..Len(jobs) |->
        score_resume_against_job(resumes[resume_id].text,
                                 jobs[j].description \o <<" ">> \o jobs[j].title,
                                 STOPWORDS)]

C10_TopTenRanking ==
    MatchesShown =>
        LET m      == response.matches
            rid    == response.resume
            shown  == { m[i].job : i \in 1..Len(m) }
            js     == JobScores(rid)
        IN  /\ Len(m) = (IF Len(jobs) < 10 THEN Len(jobs) ELSE 10)
            /\ shown \subseteq 1..Len(jobs)
            /\ Cardinality(shown) = Len(m)
            /\ \A i \in 1..Len(m) :
                   /\ m[i].score = js[m[i].job].score
                   /\ m[i].matched = js[m[i].job].matched
            /\ \A i \in 1..Len(m) : \A k \in 1..Len(m) :
                   i < k =>
                       /\ ~ScoreGT(m[k].score, m[i].score)
                       /\ ScoreEQ(m[k].score, m[i].score) => m[i].job < m[k].job
            /\ \A j \in (1..Len(jobs)) \ shown : \A i \in 1..Len(m) :
                   /\ ~ScoreGT(js[j].score, m[i].score)
                   /\ ScoreEQ(js[j].score, m[i].score) => m[i].job < j

\* More than ten jobs, two different scores among the presented ones, a
\* presented job stored after a lower-scoring one, and an omitted job tied
\* with a presented one.
C10_Witness ==
    /\ MatchesShown
    /\ Len(jobs) > 10
    /\ Len(response.matches) = 10
    /\ ScoreGT(response.matches[1].score, response.matches[10].score)
    /\ \E i \in 1..9 : response.matches[i].job > response.matches[i + 1].job
    /\ \E j \in 1..Len(jobs) :
           /\ \A i \in 1..10 : response.matches[i].job # j
           /\ ScoreEQ(JobScores(response.resume)[j].score, response.matches[10].score)

====
